---- MODULE Spec2Model ----
(***************************************************************************)
(* Model of packages/apollo/src/commands/client/codegen.ts: the            *)
(* `Generate.run` entry point, its flag validation, the `write` closure    *)
(* and the watch loop built on a Gaze subscription.                        *)
(*                                                                         *)
(* Strings whose contents matter (paths, the output argument) are          *)
(* sequences of one-character strings, so that indexOf, split and          *)
(* isAbsolute are computed and not assumed.  Paths follow the POSIX        *)
(* flavour of the `path` module.                                           *)
(***************************************************************************)
EXTENDS Integers, Sequences, FiniteSets, TLC

\* ------------------------------------------------------------------ bounds
\* Number of file-system change notifications the environment produces.
MaxEvents == 2

\* ------------------------------------------------------- program constants
\* "__generated__" (codegen.ts:244 and :202)
GENERATED == <<"_","_","g","e","n","e","r","a","t","e","d","_","_">>

\* String(undefined), what String.prototype.indexOf searches for when the
\* output argument is absent (codegen.ts:246)
UNDEFINED_STR == <<"u","n","d","e","f","i","n","e","d">>

\* path.sep (codegen.ts:161), POSIX
PathSep == "/"

\* The targets accepted by the includes() test (codegen.ts:137)
RecognizedTargets == {"json", "swift", "typescript", "flow", "scala"}

\* ------------------------------------------------------------ input values
\* The JavaScript value `undefined` of an absent positional argument; it is
\* a sequence so that it compares with the character sequences, and its one
\* element is not a character, so it is no path.
Undefined == <<"<undefined>">>

Targets == RecognizedTargets \cup {"bogus"}

Outputs == { Undefined, <<>>, <<"o">>, <<"o","/","t">>, <<"/","o">> }

PlainFile == <<"/","s","/","q">>
GeneratedFile == <<"/","s","/">> \o GENERATED \o <<"/","q">>
OutputFile == <<"/","s","/","o","/","t","/","q">>

Files == { PlainFile, GeneratedFile, OutputFile }

\* What project.resolveSchema can yield: 0 is "no schema" (falsy), 1 is a
\* schema (an opaque value, which the program only passes on).
NoSchema == 0
Schemas == {1}

\* Contents of this.project.operations / this.project.fragments.
OperationLists == { <<>>, <<"Q1","Q2">> }
FragmentLists == { <<>>, <<"F1">> }

\* ------------------------------------------------------------ pure helpers
\* String.prototype.indexOf(t): the least 0-based position at which t
\* occurs in s, or -1.
IndexOf(s, t) ==
    LET hits == { i \in 0..(Len(s) - Len(t)) : SubSeq(s, i + 1, i + Len(t)) = t }
    IN  IF hits = {} THEN -1
        ELSE CHOOSE i \in hits : \A j \in hits : i <= j

\* Coercion of the indexOf argument to a string.
ToStr(v) == IF v = Undefined THEN UNDEFINED_STR ELSE v

\* JavaScript falsiness of args.output: undefined and "" are falsy.
Falsy(v) == v = Undefined \/ v = <<>>

\* path.isAbsolute (POSIX)
IsAbsolute(p) == Len(p) > 0 /\ p[1] = PathSep

\* p.split(path.sep).length
SplitLength(p) == Cardinality({ i \in 1..Len(p) : p[i] = PathSep }) + 1

\* ---------------------------------------------------------------- state
VARIABLES
    watch,          \* flags.watch
    isTTY,          \* tty.isatty(process.stdin.fd)
    target,         \* flags.target
    output,         \* args.output
    outputFlat,     \* flags.outputFlat
    schemaNow,      \* what project.resolveSchema would yield right now
    project,        \* this.project.operations / .fragments
    pc,             \* position of the async function run
    runResult,      \* how the promise of the inner run() settled
    runReturn,      \* how the promise of Generate.run settled
    proc,           \* the process: alive, exited with 0, or crashed
    writeDefined,   \* whether the closure variable `write` was assigned
    schema,         \* the schema captured by the `write` closure
    subscription,   \* the Gaze watcher: none, open, closed
    closeCount,     \* calls of watcher.close()
    pending,        \* change notifications not yet delivered to the handler
    touched,        \* change notifications produced so far
    notifyCount,    \* calls of project.fileDidChange
    resolveCount,   \* calls of project.resolveSchema
    runCount,       \* calls of run(), the validator with the one-shot task
    validateCount,  \* calls of project.validate()
    lastValid,      \* whether the latest project.validate() returned normally
    genCount,       \* calls of the generate backend
    lastFile,       \* the path the 'all' handler was last invoked with
    lastOutcome,    \* outcome of the latest call of write()
    lastGen         \* arguments of the latest call of generate

vars == << watch, isTTY, target, output, outputFlat, schemaNow, project, pc,
           runResult, runReturn, proc, writeDefined, schema, subscription,
           closeCount, pending, touched, notifyCount, resolveCount, genCount,
           lastFile, lastOutcome, lastGen, runCount, validateCount, lastValid >>

inputVars == << watch, isTTY, target, output, outputFlat >>

callVars == << runCount, validateCount, lastValid >>

Projects == [ operations : OperationLists, fragments : FragmentLists ]

ConfigErrors == {"UnsupportedTarget", "OutputRequired", "OutputNotSingle"}

GenerationErrors == {"ValidationError", "NoDefinitions", "GenerationError"}

NoGen == [ document |-> <<>>, schema |-> NoSchema, output |-> <<>>,
           target |-> "", relativize |-> FALSE ]

\* ------------------------------------------------- the validation rules
ValidateArgsOutputFirst(t, o, flat) ==
    IF Falsy(o) /\ t # "typescript" /\ t # "flow"
    THEN "OutputRequired"
    ELSE IF t \notin RecognizedTargets
    THEN "UnsupportedTarget"
    ELSE IF ~flat /\ t \in {"typescript", "flow"}
            /\ ~Falsy(o) /\ (IsAbsolute(o) \/ SplitLength(o) > 1)
    THEN "OutputNotSingle"
    ELSE "ok"

ValidateArgsSwiftScalaOnly(t, o, flat) ==
    IF t \notin RecognizedTargets
    THEN "UnsupportedTarget"
    ELSE IF Falsy(o) /\ t \in {"swift", "scala"}
    THEN "OutputRequired"
    ELSE IF ~flat /\ t \in {"typescript", "flow"}
            /\ ~Falsy(o) /\ (IsAbsolute(o) \/ SplitLength(o) > 1)
    THEN "OutputNotSingle"
    ELSE "ok"

ValidateArgsIgnoresFlat(t, o, flat) ==
    IF t \notin RecognizedTargets
    THEN "UnsupportedTarget"
    ELSE IF Falsy(o) /\ t # "typescript" /\ t # "flow"
    THEN "OutputRequired"
    ELSE IF t \in {"typescript", "flow"}
            /\ ~Falsy(o) /\ (IsAbsolute(o) \/ SplitLength(o) > 1)
    THEN "OutputNotSingle"
    ELSE "ok"

\* The three checks at the head of the runTasks callback, in order.
ValidateArgs(t, o, flat) ==
    IF t \notin RecognizedTargets
    THEN "UnsupportedTarget"
    ELSE IF Falsy(o) /\ t # "typescript" /\ t # "flow"
    THEN "OutputRequired"
    ELSE IF ~flat /\ t \in {"typescript", "flow"}
            /\ ~Falsy(o) /\ (IsAbsolute(o) \/ SplitLength(o) > 1)
    THEN "OutputNotSingle"
    ELSE "ok"

\* ------------------------------------------------------ the write closure
WriteOutcomeEmptyFirst(valid, backendOk, prj) ==
    IF Len(prj.operations) = 0 /\ Len(prj.fragments) = 0 THEN "NoDefinitions"
    ELSE IF ~valid THEN "ValidationError"
    ELSE IF ~backendOk THEN "GenerationError"
    ELSE "ok"

\* Outcome of one call of write(): project.validate() first, then the
\* emptiness test, then the backend.  valid and backendOk are what the two
\* collaborators do on this call.
WriteOutcome(valid, backendOk, prj) ==
    IF ~valid THEN "ValidationError"
    ELSE IF Len(prj.operations) = 0 /\ Len(prj.fragments) = 0 THEN "NoDefinitions"
    ELSE IF ~backendOk THEN "GenerationError"
    ELSE "ok"

\* Whether write() gets as far as calling generate.
ReachesBackend(valid, prj) ==
    valid /\ ~(Len(prj.operations) = 0 /\ Len(prj.fragments) = 0)

GenerateArgsCurrentSchema(prj, sch) ==
    [ document   |-> prj.operations \o prj.fragments,
      schema     |-> schemaNow,
      output     |-> IF output # Undefined THEN output ELSE GENERATED,
      target     |-> target,
      relativize |-> ~outputFlat ]

GenerateArgsFragmentsFirst(prj, sch) ==
    [ document   |-> prj.fragments \o prj.operations,
      schema     |-> sch,
      output     |-> IF output # Undefined THEN output ELSE GENERATED,
      target     |-> target,
      relativize |-> ~outputFlat ]

\* The arguments write() hands to generate.
GenerateArgs(prj, sch) ==
    [ document   |-> prj.operations \o prj.fragments,
      schema     |-> sch,
      output     |-> IF output # Undefined THEN output ELSE GENERATED,
      target     |-> target,
      relativize |-> ~outputFlat ]

\* ---------------------------------------------------------------- Init
Init ==
    /\ watch \in BOOLEAN
    /\ isTTY \in BOOLEAN
    /\ target \in Targets
    /\ output \in Outputs
    /\ outputFlat \in BOOLEAN
    /\ schemaNow \in {NoSchema} \cup Schemas
    /\ project \in Projects
    /\ pc = "start"
    /\ runResult = "pending"
    /\ runReturn = "pending"
    /\ proc = "alive"
    /\ writeDefined = FALSE
    /\ schema = NoSchema
    /\ subscription = "none"
    /\ closeCount = 0
    /\ pending = <<>>
    /\ touched = 0
    /\ notifyCount = 0
    /\ resolveCount = 0
    /\ genCount = 0
    /\ lastFile = <<>>
    /\ lastOutcome = "none"
    /\ lastGen = NoGen
    /\ runCount = 0
    /\ validateCount = 0
    /\ lastValid = TRUE

\* --------------------------------------------------------------- actions
\* run(): this.runTasks invokes the callback, which validates the flags and
\* either throws (the promise of run() rejects) or returns the task list,
\* whose single task starts by awaiting project.resolveSchema.
Validate ==
    /\ pc = "start"
    /\ runCount' = runCount + 1
    /\ LET r == ValidateArgs(target, output, outputFlat)
       IN  IF r = "ok"
           THEN /\ pc' = "task"
                /\ UNCHANGED runResult
           ELSE /\ pc' = "settled"
                /\ runResult' = r
    /\ UNCHANGED << inputVars, validateCount, lastValid, lastFile, schemaNow, project, runReturn, proc,
                    writeDefined, schema, subscription, closeCount, pending,
                    touched, notifyCount, resolveCount, genCount,
                    lastOutcome, lastGen >>

\* The task body after resolveSchema has answered: throw on a falsy schema,
\* otherwise assign `write` and call it once.
RunTask ==
    /\ pc = "task"
    /\ resolveCount' = resolveCount + 1
    /\ pc' = "settled"
    /\ IF schemaNow = NoSchema
       THEN /\ runResult' = "SchemaLoadError"
            /\ UNCHANGED << writeDefined, schema, genCount, lastOutcome, lastGen,
                            validateCount, lastValid >>
       ELSE /\ writeDefined' = TRUE
            /\ schema' = schemaNow
            /\ validateCount' = validateCount + 1
            /\ \E valid \in BOOLEAN, backendOk \in BOOLEAN :
                 /\ lastValid' = valid
                 /\ runResult' = WriteOutcome(valid, backendOk, project)
                 /\ lastOutcome' = WriteOutcome(valid, backendOk, project)
                 /\ IF ReachesBackend(valid, project)
                    THEN /\ genCount' = genCount + 1
                         /\ lastGen' = GenerateArgs(project, schemaNow)
                    ELSE UNCHANGED << genCount, lastGen >>
    /\ UNCHANGED << inputVars, runCount, lastFile, schemaNow, project, runReturn,
                    proc, subscription, closeCount, pending, touched,
                    notifyCount >>

ReturnRunSwallows ==
    /\ pc = "settled"
    /\ ~watch
    /\ pc' = "done"
    /\ runReturn' = "resolved"
    /\ UNCHANGED << inputVars, callVars, lastFile, schemaNow, project, runResult, proc,
                    writeDefined, schema, subscription, closeCount, pending,
                    touched, notifyCount, resolveCount, genCount,
                    lastOutcome, lastGen >>

\* Non-watch mode: `return run()`, the caller sees the promise of run().
ReturnRun ==
    /\ pc = "settled"
    /\ ~watch
    /\ pc' = "done"
    /\ runReturn' = IF runResult = "ok" THEN "resolved" ELSE "rejected"
    /\ UNCHANGED << inputVars, callVars, lastFile, schemaNow, project, runResult, proc,
                    writeDefined, schema, subscription, closeCount, pending,
                    touched, notifyCount, resolveCount, genCount,
                    lastOutcome, lastGen >>

\* ---------------------------------------------------------- watch branch
CatchRethrows(r) == r

\* `.catch(() => {})` on the promise of run(): whatever the rejection, the
\* awaited promise is fulfilled.
Catch(r) == "ok"

IsInteractiveAlways(ttyAttached) == TRUE

\* tty.isatty((process.stdin as any).fd)
IsInteractive(ttyAttached) == ttyAttached

WatchStartNoAwait ==
    /\ pc = "task"
    /\ watch
    /\ subscription = "none"
    /\ subscription' = "open"
    /\ runReturn' = IF IsInteractive(isTTY) THEN runReturn ELSE "resolved"
    /\ UNCHANGED << inputVars, callVars, lastFile, schemaNow, project, pc, runResult,
                    proc, writeDefined, schema, closeCount, pending, touched,
                    notifyCount, resolveCount, genCount, lastOutcome, lastGen >>

\* Continuation of `await run().catch(() => {})`: the watcher is created,
\* the 'all' handler is registered, and either waitForKey installs its
\* stdin listener (run stays suspended) or run returns.
WatchStart ==
    /\ pc = "settled"
    /\ watch
    /\ IF Catch(runResult) = "ok"
       THEN /\ subscription' = "open"
            /\ IF IsInteractive(isTTY)
               THEN /\ pc' = "awaitKey"
                    /\ UNCHANGED runReturn
               ELSE /\ pc' = "watching"
                    /\ runReturn' = "resolved"
       ELSE /\ pc' = "done"
            /\ runReturn' = "rejected"
            /\ UNCHANGED subscription
    /\ UNCHANGED << inputVars, callVars, lastFile, schemaNow, project, runResult, proc,
                    writeDefined, schema, closeCount, pending, touched,
                    notifyCount, resolveCount, genCount, lastOutcome, lastGen >>

SuppressedGeneratedOnly(file, out) ==
    IndexOf(file, GENERATED) > -1

SuppressedOutputOnly(file, out) ==
    IndexOf(file, ToStr(out)) > -1

\* The two early returns of the 'all' handler.
Suppressed(file, out) ==
    \/ IndexOf(file, GENERATED) > -1
    \/ IndexOf(file, ToStr(out)) > -1

\* The file system reports a change under the include patterns; Gaze will
\* emit it to the handler in a later turn of the event loop.
FileTouch ==
    /\ proc = "alive"
    /\ subscription = "open"
    /\ touched < MaxEvents
    /\ \E file \in Files : pending' = Append(pending, file)
    /\ touched' = touched + 1
    /\ UNCHANGED << inputVars, callVars, lastFile, schemaNow, project, pc, runResult, runReturn,
                    proc, writeDefined, schema, subscription, closeCount,
                    notifyCount, resolveCount, genCount, lastOutcome, lastGen >>

\* One invocation of the 'all' handler.  It runs to completion in one turn
\* of the event loop.  An exception that write() throws (or the TypeError
\* of calling an unassigned `write`) is not caught in the handler and
\* leaves it through the emitter: what happens then is the host's doing,
\* either the uncaught exception ends the process or the host absorbs it.
\* No handler runs while the continuation of waitForKey is queued as a
\* microtask (pc = "keyed").
HandleEvent ==
    /\ proc = "alive"
    /\ subscription = "open"
    /\ pc # "keyed"
    /\ pending # <<>>
    /\ pending' = Tail(pending)
    /\ lastFile' = Head(pending)
    /\ IF Suppressed(Head(pending), output)
       THEN UNCHANGED << project, proc, notifyCount, genCount, lastOutcome, lastGen,
                         validateCount, lastValid >>
       ELSE /\ notifyCount' = notifyCount + 1
            /\ project' \in Projects
            /\ IF ~writeDefined
               THEN /\ lastOutcome' = "TypeError"
                    /\ proc' \in {"alive", "crashed"}
                    /\ UNCHANGED << genCount, lastGen, validateCount, lastValid >>
               ELSE \E valid \in BOOLEAN, backendOk \in BOOLEAN :
                      /\ validateCount' = validateCount + 1
                      /\ lastValid' = valid
                      /\ lastOutcome' = WriteOutcome(valid, backendOk, project')
                      /\ IF ReachesBackend(valid, project')
                         THEN /\ genCount' = genCount + 1
                              /\ lastGen' = GenerateArgs(project', schema)
                         ELSE UNCHANGED << genCount, lastGen >>
                      /\ IF WriteOutcome(valid, backendOk, project') = "ok"
                         THEN UNCHANGED proc
                         ELSE proc' \in {"alive", "crashed"}
    /\ UNCHANGED << inputVars, schemaNow, pc, runResult, runReturn,
                    writeDefined, schema, subscription, closeCount, touched,
                    resolveCount, runCount >>

\* The stdin 'data' listener of waitForKey: it resolves the promise that
\* run is awaiting.
KeyPress ==
    /\ proc = "alive"
    /\ pc = "awaitKey"
    /\ pc' = "keyed"
    /\ UNCHANGED << inputVars, callVars, lastFile, schemaNow, project, runResult, runReturn, proc,
                    writeDefined, schema, subscription, closeCount, pending,
                    touched, notifyCount, resolveCount, genCount,
                    lastOutcome, lastGen >>

ShutdownNoExit ==
    /\ proc = "alive"
    /\ pc = "keyed"
    /\ pc' = "watching"
    /\ runReturn' = "resolved"
    /\ UNCHANGED << inputVars, callVars, lastFile, schemaNow, project, runResult, proc,
                    writeDefined, schema, subscription, closeCount, pending,
                    touched, notifyCount, resolveCount, genCount,
                    lastOutcome, lastGen >>

\* Continuation of `await waitForKey()`: watcher.close(); process.exit(0).
Shutdown ==
    /\ proc = "alive"
    /\ pc = "keyed"
    /\ subscription' = "closed"
    /\ closeCount' = closeCount + 1
    /\ proc' = "exit0"
    /\ pc' = "exited"
    /\ UNCHANGED << inputVars, callVars, lastFile, schemaNow, project, runResult, runReturn,
                    writeDefined, schema, pending, touched, notifyCount,
                    resolveCount, genCount, lastOutcome, lastGen >>

\* The environment: the schema becomes available, unavailable or changes.
SchemaChange ==
    /\ proc = "alive"
    /\ pc \notin {"done", "exited"}
    /\ schemaNow' \in ({NoSchema} \cup Schemas) \ {schemaNow}
    /\ UNCHANGED << inputVars, callVars, lastFile, project, pc, runResult, runReturn, proc,
                    writeDefined, schema, subscription, closeCount, pending,
                    touched, notifyCount, resolveCount, genCount,
                    lastOutcome, lastGen >>

Next ==
    \/ Validate
    \/ RunTask
    \/ ReturnRun
    \/ WatchStart
    \/ FileTouch
    \/ HandleEvent
    \/ KeyPress
    \/ Shutdown
    \/ SchemaChange

Spec == Init /\ [][Next]_vars

\* The state of the watch controller, read off the position of run.
ControllerState ==
    CASE pc \in {"start", "task", "settled"} -> "Generating"
      [] pc \in {"watching", "awaitKey"}     -> "Idle"
      [] pc = "keyed"                        -> "AwaitingExit"
      [] pc = "exited"                       -> "Closed"
      [] OTHER                               -> "Returned"

TypeOK ==
    /\ pc \in {"start", "task", "settled", "watching", "awaitKey", "keyed",
               "exited", "done"}
    /\ proc \in {"alive", "exit0", "crashed"}
    /\ subscription \in {"none", "open", "closed"}
    /\ runReturn \in {"pending", "resolved", "rejected"}
    /\ runResult \in {"pending", "ok", "SchemaLoadError"} \cup ConfigErrors
                       \cup GenerationErrors
    /\ touched \in 0..MaxEvents

\* ------------------------------------------------------------ properties
\* A step in which the 'all' handler is invoked.
HandlerStep == pending # <<>> /\ pending' = Tail(pending)

\* A step in which the handler got past both early returns.
TriggeredStep == HandlerStep /\ notifyCount' = notifyCount + 1

\* A step that leaves everything a regeneration touches as it was.
NoRegeneration ==
    UNCHANGED << notifyCount, genCount, lastOutcome, lastGen, project >>

\* C1: a triggered regeneration that fails leaves the process alive, the
\* subscription open and the controller Idle.
C1_FailureKeepsWatchLoop ==
    [][ (TriggeredStep /\ lastOutcome' \in GenerationErrors)
          => (proc' = "alive" /\ subscription' = "open"
              /\ ControllerState' = "Idle") ]_vars

\* C2: when watch mode started with an unresolvable schema, a non-suppressed
\* change handled while the schema is resolvable runs a generation that
\* writes files.
C2_LaterChangeGenerates ==
    [][ (watch /\ runResult = "SchemaLoadError" /\ schemaNow # NoSchema
         /\ TriggeredStep)
          => (genCount' = genCount + 1 /\ lastOutcome' = "ok") ]_vars

\* C3: after a configuration error no subscription is opened, no generation
\* is run and run does not return successfully, in watch mode as in
\* one-shot mode.
C3_ConfigErrorAborts ==
    runResult \in ConfigErrors
        => (subscription = "none" /\ genCount = 0 /\ runReturn # "resolved")

\* C4: in watch mode, when the initial generation has settled, with success
\* or with a non-configuration failure, the step by which run goes on
\* opens the subscription and makes the controller Idle.
C4_InitialFailureStillWatches ==
    [][ (watch /\ pc = "settled" /\ runResult \notin ConfigErrors /\ pc' # pc)
          => (subscription' = "open" /\ ControllerState' = "Idle"
              /\ proc' = "alive") ]_vars

C4_Witness ==
    /\ watch
    /\ runResult \in {"SchemaLoadError"} \cup GenerationErrors
    /\ subscription = "open"
    /\ ControllerState = "Idle"

\* C5: once the key has been received nothing is regenerated any more, the
\* next step of the program closes the subscription and exits with status
\* 0, whatever notifications are pending.
C5_KeypressStopsEverything ==
    [][ /\ (pc \in {"keyed", "exited"} => NoRegeneration /\ ~HandlerStep)
        /\ (pc = "keyed" /\ pc' # pc
              => (pc' = "exited" /\ subscription' = "closed"
                  /\ closeCount' = closeCount + 1 /\ proc' = "exit0")) ]_vars

C5_Witness ==
    /\ isTTY
    /\ pc = "exited"
    /\ proc = "exit0"
    /\ subscription = "closed"
    /\ pending # <<>>
    /\ ~Suppressed(Head(pending), output)

\* C6: the handler, invoked with a path that contains "__generated__",
\* notifies nobody and regenerates nothing.
C6_GeneratedPathNeverTriggers ==
    [][ (HandlerStep /\ IndexOf(Head(pending), GENERATED) > -1)
          => NoRegeneration ]_vars

C6_Witness ==
    /\ lastFile = GeneratedFile
    /\ IndexOf(output, GENERATED) = -1
    /\ writeDefined
    /\ notifyCount = 0
    /\ touched > 0

\* C7: with an output path given, the handler, invoked with a path that
\* contains it, notifies nobody and regenerates nothing.
C7_OutputPathNeverTriggers ==
    [][ (HandlerStep /\ output # Undefined
         /\ IndexOf(Head(pending), output) > -1)
          => NoRegeneration ]_vars

C7_Witness ==
    /\ output = <<"o","/","t">>
    /\ lastFile = OutputFile
    /\ writeDefined
    /\ notifyCount = 0
    /\ touched > 0

\* C8 as stated: in watch mode run has not returned unless the interactive
\* exit was taken or the process is gone, and without a terminal it never
\* returns successfully.  (Stated for runs whose flags are valid, so that
\* it does not depend on what becomes of a configuration error.)
C8_RunNeverReturnsInWatchMode ==
    (watch /\ runResult \notin ConfigErrors)
        => /\ (runReturn # "pending" => (pc = "exited" \/ proc # "alive"))
           /\ (~isTTY => runReturn # "resolved")

\* C8 amended: in watch mode with a terminal attached run never returns
\* (the process exits with 0 from inside it); without one it has returned
\* successfully as soon as the subscription is open, and not before, and
\* the subscription stays open.
C8_WatchReturn ==
    watch => /\ (isTTY => runReturn = "pending")
             /\ (proc = "exit0" => pc = "exited")
             /\ (~isTTY => /\ (subscription = "none" <=> runReturn = "pending")
                           /\ (subscription # "none"
                                 => runReturn = "resolved" /\ subscription = "open"))

C8_Witness ==
    /\ watch
    /\ ~isTTY
    /\ runReturn = "resolved"
    /\ subscription = "open"
    /\ proc = "alive"

\* C9: without a terminal the controller is never AwaitingExit or Closed
\* and close is never called; close is called at most once, and exactly
\* once on the interactive exit.
C9_ClosedOnlyByKeypress ==
    /\ closeCount <= 1
    /\ (~isTTY => /\ ControllerState \notin {"AwaitingExit", "Closed"}
                  /\ closeCount = 0
                  /\ subscription # "closed")
    /\ (ControllerState = "Closed" <=> closeCount = 1)
    /\ (subscription = "closed" <=> closeCount = 1)
    /\ (proc = "exit0" <=> closeCount = 1)

C9_Witness ==
    /\ isTTY
    /\ ControllerState = "Closed"
    /\ closeCount = 1
    /\ subscription = "closed"

\* C10: an unrecognized target is reported as unsupported, whatever the
\* output path, and the schema is never resolved nor anything generated.
C10_UnsupportedTargetFirst ==
    target \notin RecognizedTargets
        => /\ resolveCount = 0
           /\ genCount = 0
           /\ ~writeDefined
           /\ pc # "task"
           /\ (pc # "start" => runResult = "UnsupportedTarget")

C10_Witness ==
    /\ target = "bogus"
    /\ Falsy(output)
    /\ pc = "settled"
    /\ runResult = "UnsupportedTarget"

\* C11: for json, swift and scala, with no output argument, validation
\* fails on the output rule whatever outputFlat is, and the schema is never
\* resolved nor anything validated or generated.
C11_OutputRequired ==
    (target \in {"json", "swift", "scala"} /\ output = Undefined)
        => /\ resolveCount = 0
           /\ validateCount = 0
           /\ genCount = 0
           /\ ~writeDefined
           /\ pc # "task"
           /\ (pc # "start" => runResult = "OutputRequired")

C11_Witness ==
    /\ target = "json"
    /\ output = Undefined
    /\ outputFlat
    /\ pc = "settled"
    /\ runResult = "OutputRequired"

\* C12: for typescript and flow, validation fails, on the single-segment
\* rule, exactly when outputFlat is off and an output is given that holds a
\* separator (it is absolute or has several segments); in every other case
\* the flags validate.
C12_SingleSegmentOutput ==
    (target \in {"typescript", "flow"} /\ pc # "start")
        => /\ runResult \notin {"UnsupportedTarget", "OutputRequired"}
           /\ (runResult = "OutputNotSingle"
                 <=> (~outputFlat /\ output # Undefined
                      /\ \E i \in 1..Len(output) : output[i] = "/"))

C12_Witness ==
    /\ target = "typescript"
    /\ ~outputFlat
    /\ output = <<"o","/","t">>
    /\ pc = "settled"
    /\ runResult = "OutputNotSingle"

\* A step in which write() is called: by the task of the initial pass,
\* once the schema is there, or by the handler past its early returns.
WriteCalled ==
    \/ pc = "task" /\ pc' = "settled" /\ schemaNow # NoSchema
    \/ TriggeredStep /\ writeDefined

\* C13: a call of write() that gets past project.validate() fails with the
\* no-definitions error, without calling the backend, when the project has
\* no operation and no fragment; otherwise it calls the backend with the
\* operations, in order, followed by the fragments, in order.
C13_DocumentAssembly ==
    [][ (WriteCalled /\ lastValid')
          => IF Len(project'.operations) = 0 /\ Len(project'.fragments) = 0
             THEN /\ lastOutcome' = "NoDefinitions"
                  /\ UNCHANGED << genCount, lastGen >>
             ELSE /\ lastOutcome' \in {"ok", "GenerationError"}
                  /\ genCount' = genCount + 1
                  /\ Len(lastGen'.document)
                       = Len(project'.operations) + Len(project'.fragments)
                  /\ SubSeq(lastGen'.document, 1, Len(project'.operations))
                       = project'.operations
                  /\ SubSeq(lastGen'.document, Len(project'.operations) + 1,
                            Len(lastGen'.document))
                       = project'.fragments ]_vars

C13_Witness ==
    /\ lastValid
    /\ lastOutcome = "NoDefinitions"
    /\ Len(project.operations) = 0
    /\ Len(project.fragments) = 0
    /\ genCount = 1
    /\ lastGen.document = <<"Q1", "Q2", "F1">>

\* C14: in one-shot mode an error of the pipeline is what run returns to
\* its caller, as a failure; run succeeds only when the generation did, and
\* no subscription is ever opened nor any change handled.
C14_OneShotErrorsPropagate ==
    ~watch
        => /\ subscription = "none"
           /\ closeCount = 0
           /\ notifyCount = 0
           /\ proc = "alive"
           /\ (pc # "done" => runReturn = "pending")
           /\ (pc = "done" /\ runResult \in {"SchemaLoadError"} \cup GenerationErrors
                 => runReturn = "rejected")
           /\ (runReturn = "resolved" => runResult = "ok" /\ lastOutcome = "ok")

C14_Witness ==
    /\ ~watch
    /\ pc = "done"
    /\ runResult = "GenerationError"
    /\ runReturn = "rejected"
    /\ subscription = "none"

\* C15: every call of write() calls project.validate() first; when that
\* fails the outcome is the validation failure, also with an empty project,
\* the backend is not called, and the initial pass settles with that very
\* failure; the backend is called only after validate() has returned.
C15_ValidateFirst ==
    [][ /\ (WriteCalled
              => /\ validateCount' = validateCount + 1
                 /\ (~lastValid'
                       => /\ lastOutcome' = "ValidationError"
                          /\ UNCHANGED << genCount, lastGen >>
                          /\ (pc = "task" => runResult' = "ValidationError")))
        /\ (genCount' # genCount
              => validateCount' = validateCount + 1 /\ lastValid') ]_vars

C15_Witness ==
    /\ ~lastValid
    /\ lastOutcome = "ValidationError"
    /\ Len(project.operations) = 0
    /\ Len(project.fragments) = 0
    /\ notifyCount > 0
    /\ validateCount = 2
    /\ genCount = 1

\* C16: the handler, invoked while Idle with a path that holds neither
\* marker, notifies the project once, runs one regeneration attempt
\* (write(), whose first act is project.validate()), and leaves the
\* controller Idle with the process alive.
C16_TriggerNotifiesThenRegenerates ==
    [][ (HandlerStep /\ ControllerState = "Idle"
         /\ ~Suppressed(Head(pending), output))
          => /\ notifyCount' = notifyCount + 1
             /\ validateCount' = validateCount + 1
             /\ ControllerState' = "Idle"
             /\ proc' = "alive" ]_vars

\* C17: run() is called once per run; as long as its promise has not
\* settled there is no subscription, no notification queued or handled and
\* no key listener; the schema is resolved at most once.
C17_OneShotOnceThenWatch ==
    /\ runCount <= 1
    /\ resolveCount <= 1
    /\ (pc # "start" => runCount = 1)
    /\ (runResult = "pending"
          => /\ pc \in {"start", "task"}
             /\ subscription = "none"
             /\ pending = <<>>
             /\ touched = 0
             /\ notifyCount = 0
             /\ lastFile = <<>>)
    /\ (subscription # "none" => watch /\ runCount = 1 /\ runResult # "pending")

C17_Witness ==
    /\ watch
    /\ runCount = 1
    /\ runResult = "ok"
    /\ subscription = "open"
    /\ pc = "awaitKey"
    /\ notifyCount > 0

\* C18: a step starts and finishes at most one generation, the handler is
\* never invoked while the initial pass is unsettled, and the initial pass
\* settles with no subscription and no notification around.
C18_NoOverlap ==
    [][ /\ validateCount' <= validateCount + 1
        /\ genCount' <= genCount + 1
        /\ (HandlerStep => runResult # "pending" /\ pc \notin {"start", "task"})
        /\ (pc = "task" /\ pc' # pc
              => subscription = "none" /\ pending = <<>> /\ notifyCount = 0) ]_vars

C18_Witness ==
    /\ watch
    /\ genCount >= 2
    /\ validateCount = genCount
    /\ notifyCount >= 1
    /\ pending # <<>>
    /\ ~Suppressed(Head(pending), output)
    /\ proc = "alive"

\* C19 as stated: in watch mode, once the initial pass is over the validator
\* and the schema resolver have each run exactly once.
C19_ValidatorAndResolverOnce ==
    (watch /\ pc \notin {"start", "task"})
        => (runCount = 1 /\ resolveCount = 1)

\* How often the validator and the resolver have run, in watch mode.
C19_Counts ==
    watch => /\ runCount <= 1
             /\ resolveCount <= 1
             /\ (pc # "start" => runCount = 1)
             /\ (pc \notin {"start", "task"}
                   => (resolveCount = 1 <=> runResult \notin ConfigErrors))

\* C19 amended: in watch mode the validator runs exactly once and the
\* resolver at most once, once when the flags validate and never otherwise,
\* both in the initial pass; a triggered regeneration runs neither, and
\* what it hands to the backend is the captured schema, the target, the
\* output and the options of the flags, with the document of the project
\* as it is then.
C19_CapturedOnce ==
    [][ /\ C19_Counts'
        /\ (TriggeredStep
              => /\ UNCHANGED << runCount, resolveCount, schema, writeDefined >>
                 /\ (genCount' # genCount
                       => /\ lastGen'.schema = schema
                          /\ lastGen'.schema # NoSchema
                          /\ lastGen'.target = target
                          /\ lastGen'.output
                               = (IF output = Undefined THEN GENERATED ELSE output)
                          /\ lastGen'.relativize = ~outputFlat
                          /\ lastGen'.document
                               = project'.operations \o project'.fragments)) ]_vars

C19_Witness ==
    /\ watch
    /\ runCount = 1
    /\ resolveCount = 1
    /\ notifyCount = 1
    /\ validateCount = 2
    /\ genCount = 2
    /\ schemaNow = NoSchema
    /\ lastGen.schema = schema
    /\ lastGen.document = project.operations \o project.fragments

\* C20: the handler, invoked with a path that holds "__generated__" or what
\* indexOf takes the output argument for, changes nothing but the queue it
\* was taken from: nobody is notified, nothing is validated or generated,
\* and the subscription, the closure and the position of run stay as they
\* are.
C20_SuppressedIsNoOp ==
    [][ (HandlerStep
         /\ (\/ IndexOf(Head(pending), GENERATED) > -1
             \/ IndexOf(Head(pending), ToStr(output)) > -1))
          => UNCHANGED << notifyCount, validateCount, lastValid, genCount,
                          lastOutcome, lastGen, project, subscription,
                          closeCount, writeDefined, schema, pc, proc,
                          runResult, runReturn, resolveCount, runCount,
                          touched, schemaNow >> ]_vars

C20_Witness ==
    /\ output = <<"o">>
    /\ lastFile = OutputFile
    /\ pending = <<>>
    /\ touched >= 1
    /\ notifyCount = 0
    /\ validateCount = 1
    /\ genCount = 1
    /\ lastOutcome = "ok"
    /\ subscription = "open"
    /\ ControllerState = "Idle"

====
